---- MODULE Spec2Model ----
(***************************************************************************)
(* State-machine model of src/src/mqtt.c (esp32-ble2mqtt): the MQTT        *)
(* session layer between the application and the esp_mqtt transport.       *)
(*                                                                         *)
(* C strings are sequences of characters; a char* that is NULL is the     *)
(* value NoStr.  Subscription records live in a small heap of addresses    *)
(* (0 is the NULL pointer) and are chained by their next fields exactly    *)
(* as the C list is, so that a pointer to a released record can be         *)
(* followed.  The publication list holds no pointer that outlives a        *)
(* handler and is a sequence, head first.                                  *)
(*                                                                         *)
(* Handlers run to completion on one thread.  A handler that calls an      *)
(* application callback (on_connected_cb, on_disconnected_cb, a            *)
(* subscription's cb) is split at the callback: while the callback runs    *)
(* (pc # "idle") the application may call the public operations, and the   *)
(* handler resumes when the callback returns.                              *)
(***************************************************************************)
EXTENDS Integers, Sequences, FiniteSets, TLC

\* ---------------------------------------------------------------- bounds
\* records ever created by mqtt_subscribe (also the number of heap blocks)
MaxSubs == 2
\* entries the publication list may hold
MaxQueue == 2
\* public operations one handler's application callbacks may call
MaxNested == 2
\* length of the strings the namespacer is applied to on its own
NsMaxLen == 2

\* ------------------------------------------------------ program constants
\* retries < 3, retries == 3 in mqtt_subscribe
RetryLimit == 3
\* the NULL pointer (addresses, ctx)
NULL == 0

\* ----------------------------------------------------------------- inputs
\* a char* that is NULL
NoStr == <<"NULL">>
\* the string terminator
NUL == "NUL"
\* the non-empty prefix the application configures (prefix_in of mqtt_connect)
PrefixStr == <<"h", "/">>
\* prefix_in of mqtt_connect: absent or non-empty
PrefixInputs == {NoStr, PrefixStr}
\* topic_in of mqtt_unsubscribe
Topics == {<<"l">>, <<"l", "x">>}
\* topics the transport delivers messages on
WireTopics == Topics \cup {PrefixStr \o t : t \in Topics}
\* what a read of memory that is not a string can produce
Garbage == {<<"?">>}
\* (topic_in, cb, ctx, free_cb) of mqtt_subscribe; a function pointer is a
\* name or "NULL"
SubArgs ==
    { [topic |-> <<"l">>, cb |-> "cb1", ctx |-> 1, free_cb |-> "free1"],
      [topic |-> <<"l", "x">>, cb |-> "cb2", ctx |-> NULL, free_cb |-> "free1"] }
\* topic_in of mqtt_publish
PubTopics == {<<"l">>}
\* (payload, len, qos, retained) of mqtt_publish
PubArgs ==
    { [payload |-> <<1>>, len |-> 1, qos |-> 0, retained |-> 1],
      [payload |-> <<2, 3>>, len |-> 2, qos |-> 1, retained |-> 0] }
\* payloads of inbound messages
MsgPayloads == {<<7>>}
QosInputs == {1}
CbInputs == {"NULL", "app_cb"}

Addr == 1..MaxSubs

\* ------------------------------------------------------------ C strings
Min(a, b) == IF a < b THEN a ELSE b

Take(s, n) == SubSeq(s, 1, Min(n, Len(s)))

CStr(s) == s \o <<NUL>>

\* strcmp(a, b): 0 iff the strings are equal
Strcmp(a, b) == IF a = b THEN 0 ELSE 1

\* strncmp(a, b, n): 0 iff the strings agree on their first n characters,
\* the comparison ending at a terminator
Strncmp(a, b, n) == IF Take(CStr(a), n) = Take(CStr(b), n) THEN 0 ELSE 1

\* memcmp(a, b, n) on the bytes of two strings
Memcmp(a, b, n) == IF Take(CStr(a), n) = Take(CStr(b), n) THEN 0 ELSE 1

\* the strings strdup(s + n) can return: the tail of s, or, when s + n lies
\* beyond the terminator, whatever follows the string in memory
StrdupFrom(s, n) ==
    IF n <= Len(s) THEN {SubSeq(s, n + 1, Len(s))} ELSE Garbage

\* ------------------------------------------------------ topic namespacer
\* !prefix || !prefix[0]
NoPrefix(p) == p = NoStr \/ p = <<>>

mqtt_add_prefix(p, topic) ==
    IF NoPrefix(p) THEN topic ELSE p \o topic

\* the test of mqtt_remove_prefix that selects the stripping branch
RemovePrefixStrips(p, topic) == Memcmp(topic, p, Len(p)) # 0

\* mqtt_remove_prefix: the set of results [topic, freed]; freed says that
\* the argument was passed to free()
mqtt_remove_prefix(p, topic) ==
    IF NoPrefix(p) THEN {[topic |-> topic, freed |-> FALSE]}
    ELSE IF RemovePrefixStrips(p, topic)
         THEN {[topic |-> t, freed |-> TRUE] : t \in StrdupFrom(topic, Len(p))}
         ELSE {[topic |-> topic, freed |-> FALSE]}

\* ------------------------------------------------------------------ state
VARIABLES
    prefix,              \* static char *prefix
    is_connected,        \* static uint8_t is_connected
    on_connected_cb,     \* static mqtt_on_connected_cb_t on_connected_cb
    on_disconnected_cb,  \* static mqtt_on_disconnected_cb_t on_disconnected_cb
    subscription_list,   \* static mqtt_subscription_t *subscription_list
    heap,                \* the mqtt_subscription_t blocks, by address
    publications_list,   \* static mqtt_publications_t *publications_list
    initialized,         \* esp_mqtt_init has registered the two handlers
    pc,                  \* "idle", the application callback that is running, or "crashed"
    msg,                 \* locals of mqtt_message_cb (topic_in, payload, len, cur)
    calls,               \* history: subscription callbacks invoked by the dispatch
    hist,                \* history: the handler in progress and the operations its callbacks made
    nsubs,               \* history: records created so far
    enqueued             \* history: the queued publications in the order of the calls

vars ==
    << prefix, is_connected, on_connected_cb, on_disconnected_cb,
       subscription_list, heap, publications_list, initialized, pc, msg,
       calls, hist, nsubs, enqueued >>

\* a pointer that addresses no block
WILD == -1

\* a block malloc never returned
FreeBlock ==
    [next |-> NULL, topic |-> <<>>, cb |-> "NULL", ctx |-> NULL,
     free_cb |-> "NULL", live |-> FALSE, serial |-> 0]

\* stale: the loop has read cur->next from a record that had been released
NoMsg ==
    [topic_in |-> <<>>, freed |-> FALSE, payload |-> <<>>, len |-> 0,
     cur |-> NULL, pre |-> <<>>, done |-> FALSE, stale |-> FALSE]

\* what the history records of one operation or event; for a handler that
\* calls application callbacks, nested counts the operations they have made
BaseOp ==
    [name |-> "", topic |-> <<>>, conn |-> 0, ret |-> 0, tcalls |-> <<>>,
     pre |-> <<>>, queued |-> <<>>, dtors |-> <<>>, pubs |-> <<>>,
     nested |-> 0]

MkOp(fields) == fields @@ BaseOp

\* --------------------------------------------------- subscription list
\* the addresses reached from pointer a by following next, at most n of them
RECURSIVE Walk(_, _, _)
Walk(h, a, n) ==
    IF a = NULL \/ n = 0 THEN <<>> ELSE <<a>> \o Walk(h, h[a].next, n - 1)

\* the list as the sequence of its blocks' addresses
ListAddrs(h, head) == Walk(h, head, MaxSubs)

\* the registry as the application sees it: the records in list order
RegView(h, head) ==
    [i \in 1..Len(ListAddrs(h, head)) |->
        LET r == h[ListAddrs(h, head)[i]]
        IN  [serial |-> r.serial, topic |-> r.topic, cb |-> r.cb,
             ctx |-> r.ctx, free_cb |-> r.free_cb]]

\* the blocks malloc may return: a released block, or the first fresh one
MallocChoices(h) ==
    {a \in Addr : ~h[a].live /\ h[a].serial # 0}
    \cup {a \in Addr : h[a].serial = 0 /\ \A b \in Addr : h[b].serial = 0 => a <= b}

\* where mqtt_subscription_add links the new record
AppendAtEnd(h, head, a) ==
    IF head = NULL
    THEN [heap |-> h, head |-> a]
    ELSE LET l == ListAddrs(h, head)
         IN  [heap |-> [h EXCEPT ![l[Len(l)]].next = a], head |-> head]

mqtt_subscription_add(h, head, a, serial, topic, cb, ctx, free_cb) ==
    LET sub == [next |-> NULL, topic |-> topic, cb |-> cb, ctx |-> ctx,
                free_cb |-> free_cb, live |-> TRUE, serial |-> serial]
    IN  AppendAtEnd([h EXCEPT ![a] = sub], head, a)

\* the condition under which mqtt_subscription_free calls the destructor
DestructorRuns(rec) == rec.ctx # NULL /\ rec.free_cb # "NULL"

\* the free_cb(ctx) calls mqtt_subscription_free makes for the block at a
FreeCalls(h, a) ==
    IF DestructorRuns(h[a])
    THEN <<[serial |-> h[a].serial, free_cb |-> h[a].free_cb, ctx |-> h[a].ctx]>>
    ELSE <<>>

\* mqtt_subscription_free: the block is released, its bytes are left as they are
mqtt_subscription_free(h, a) == [h EXCEPT ![a].live = FALSE]

\* Only cur of a dispatch in progress can still point to a released block:
\* outside one (state s), the bytes of released blocks are not part of the state
Observable(s, h) ==
    IF s = "on_message" THEN h
    ELSE [a \in Addr |-> IF h[a].live THEN h[a] ELSE FreeBlock]

RECURSIVE FreeAll(_, _)
FreeAll(h, l) ==
    IF l = <<>> THEN h ELSE FreeAll(mqtt_subscription_free(h, Head(l)), Tail(l))

RECURSIVE FreeCallsAll(_, _)
FreeCallsAll(h, l) ==
    IF l = <<>> THEN <<>> ELSE FreeCalls(h, Head(l)) \o FreeCallsAll(h, Tail(l))

\* mutant: the list is left as it is
mqtt_subscriptions_free_none(h, head) ==
    [heap |-> h, head |-> head, dtors |-> <<>>]

\* mqtt_subscriptions_free: every record released in list order, the list emptied
mqtt_subscriptions_free(h, head) ==
    [heap |-> FreeAll(h, ListAddrs(h, head)), head |-> NULL,
     dtors |-> FreeCallsAll(h, ListAddrs(h, head))]

\* mutant: the search loop compares the whole strings
RemoveMatches_exact(stored, topic) == Strcmp(stored, topic) = 0

\* the test of mqtt_subscription_remove's search loop
RemoveMatches(stored, topic) == Strncmp(stored, topic, Len(topic)) = 0

\* positions of the list whose record the search loop would stop at
MatchPositions(h, l, topic) ==
    {i \in 1..Len(l) : RemoveMatches(h[l[i]].topic, topic)}

\* the position the search loop of mqtt_subscription_remove stops at (0: none)
FirstMatch(h, l, topic) ==
    IF MatchPositions(h, l, topic) = {} THEN 0
    ELSE CHOOSE i \in MatchPositions(h, l, topic) :
            \A j \in MatchPositions(h, l, topic) : i <= j

mqtt_subscription_remove(h, head, topic) ==
    LET l == ListAddrs(h, head)
        i == FirstMatch(h, l, topic)
    IN  IF i = 0
        THEN [heap |-> h, head |-> head, dtors |-> <<>>]
        ELSE LET tmp == l[i]
                 unlinked == IF i = 1 THEN h
                             ELSE [h EXCEPT ![l[i - 1]].next = h[tmp].next]
             IN  [heap |-> mqtt_subscription_free(unlinked, tmp),
                  head |-> IF i = 1 THEN h[tmp].next ELSE head,
                  dtors |-> FreeCalls(h, tmp)]

\* ---------------------------------------------------- publication list
mqtt_publication_add(list, topic, payload, len, qos, retained) ==
    LET pub == [topic |-> topic, payload |-> Take(payload, len), len |-> len,
                qos |-> qos, retained |-> retained]
    IN  <<pub>> \o list

\* mutant: the entries are released but the list head is left as it was
mqtt_publications_free_keeps_head(list) == list

\* mqtt_publications_free: the list after every entry is released
mqtt_publications_free(list) == <<>>

\* the esp_mqtt_publish call mqtt_publish makes while connected
PublishCall(p, topic_in, payload, len, qos, retained, ok) ==
    [fn |-> "publish", topic |-> mqtt_add_prefix(p, topic_in),
     payload |-> payload, len |-> len, qos |-> qos, retained |-> retained,
     ok |-> ok]

\* mutant: the flush stops at the first entry the transport rejects
mqtt_publications_publish_stops(p, list, answers) ==
    [i \in 1..(IF \E j \in 1..Len(list) : answers[j] = FALSE
               THEN CHOOSE j \in 1..Len(list) :
                       answers[j] = FALSE /\ \A k \in 1..(j - 1) : answers[k]
               ELSE Len(list)) |->
        PublishCall(p, list[i].topic, list[i].payload, list[i].len,
                    list[i].qos, list[i].retained, answers[i])]

\* mqtt_publications_publish: the transport calls of the flush, in order; the
\* transport answers the i-th with answers[i], and the value mqtt_publish
\* returns for it is discarded
mqtt_publications_publish(p, list, answers) ==
    [i \in 1..Len(list) |->
        PublishCall(p, list[i].topic, list[i].payload, list[i].len,
                    list[i].qos, list[i].retained, answers[i])]

\* the flush passes each entry's topic to mqtt_publish, whose mqtt_add_prefix
\* frees it when a prefix is set; mqtt_publications_free frees it again
FlushDoubleFree(p, list) == ~NoPrefix(p) /\ list # <<>>

\* ------------------------------------------------------------ the frame
Init ==
    /\ prefix = NoStr
    /\ is_connected = 0
    /\ on_connected_cb = "NULL"
    /\ on_disconnected_cb = "NULL"
    /\ subscription_list = NULL
    /\ heap = [a \in Addr |-> FreeBlock]
    /\ publications_list = <<>>
    /\ initialized = FALSE
    /\ pc = "idle"
    /\ msg = NoMsg
    /\ calls = <<>>
    /\ hist = <<>>
    /\ nsubs = 0
    /\ enqueued = <<>>

CallbackRunning == pc \in {"on_connected", "on_disconnected", "on_message"}

\* a public operation is called by the application between handlers, or from
\* inside a callback the module is running
CanCall == pc = "idle" \/ (CallbackRunning /\ hist[1].nested < MaxNested)

\* history of an operation: a new handler, or the latest call made by a
\* callback of the handler in progress
Log(op) ==
    /\ hist' = IF pc = "idle" THEN <<op>>
               ELSE <<[hist[1] EXCEPT !.nested = @ + 1], op>>
    /\ IF pc = "idle"
       THEN msg' = NoMsg /\ calls' = <<>>
       ELSE UNCHANGED <<msg, calls>>

\* -------------------------------------------------------- mqtt_subscribe
\* mutant: the connectivity test is missing
SubscribeRefused_never(conn) == FALSE

\* if (!is_connected) return -1;
SubscribeRefused(conn) == conn = 0

\* the condition of the retry loop, after esp_mqtt_subscribe answered ok
RetryAgain(ok, retries) == ok # TRUE /\ retries < RetryLimit

\* mutant: the exhaustion test is off by one and never true
SubscribeGaveUp_late(retries) == retries > RetryLimit

\* if (retries == 3)
SubscribeGaveUp(retries) == retries = RetryLimit

\* the answers esp_mqtt_subscribe may give to the calls of one mqtt_subscribe
\* (rejected k times, then accepted)
SubscribeAnswers ==
    {[i \in 1..(RetryLimit + 1) |-> i > k] : k \in 0..(RetryLimit + 1)}

\* the retry loop from its i-th evaluation: the number of esp_mqtt_subscribe
\* calls made and the final value of retries
RECURSIVE SubscribeLoop(_, _, _)
SubscribeLoop(answers, i, retries) ==
    IF RetryAgain(answers[i], retries)
    THEN SubscribeLoop(answers, i + 1, retries + 1)
    ELSE [calls |-> i, retries |-> retries]

SubscribeCalls(topic, qos, answers, n) ==
    [i \in 1..n |-> [fn |-> "subscribe", topic |-> topic, qos |-> qos,
                     ok |-> answers[i]]]

\* the transport gives answers to the esp_mqtt_subscribe calls; malloc
\* returns block a for the new record
SubscribeConnected(topic, qos, args, answers, base) ==
    LET run == SubscribeLoop(answers, 1, 0)
        tcalls == SubscribeCalls(topic, qos, answers, run.calls)
    IN  IF SubscribeGaveUp(run.retries)
        THEN /\ Log(MkOp([ret |-> -1, tcalls |-> tcalls] @@ base))
             /\ UNCHANGED <<subscription_list, heap, nsubs>>
        ELSE /\ nsubs < MaxSubs
             /\ \E a \in MallocChoices(heap) :
                   LET new == mqtt_subscription_add(heap, subscription_list, a,
                                  nsubs + 1, topic, args.cb, args.ctx, args.free_cb)
                   IN  /\ heap' = Observable(pc, new.heap)
                       /\ subscription_list' = new.head
             /\ nsubs' = nsubs + 1
             /\ Log(MkOp([ret |-> 0, tcalls |-> tcalls] @@ base))

mqtt_subscribe(topic_in, qos, args) ==
    LET topic == mqtt_add_prefix(prefix, topic_in)
        base == [name |-> "subscribe", topic |-> topic_in, conn |-> is_connected,
                 pre |-> RegView(heap, subscription_list)]
    IN  /\ CanCall
        /\ IF SubscribeRefused(is_connected)
           THEN /\ Log(MkOp([ret |-> -1] @@ base))
                /\ UNCHANGED <<subscription_list, heap, nsubs>>
           ELSE \E answers \in SubscribeAnswers :
                   SubscribeConnected(topic, qos, args, answers, base)
        /\ UNCHANGED <<prefix, is_connected, on_connected_cb, on_disconnected_cb,
                       publications_list, initialized, pc, enqueued>>

\* ------------------------------------------------------ mqtt_unsubscribe
\* if (!is_connected) return 0;
UnsubscribeLocalOnly(conn) == conn = 0

\* return esp_mqtt_unsubscribe(topic): the transport's bool as the int result
UnsubscribeResult(ok) == IF ok THEN 1 ELSE 0

mqtt_unsubscribe(topic_in) ==
    LET topic == mqtt_add_prefix(prefix, topic_in)
        rem == mqtt_subscription_remove(heap, subscription_list, topic)
        base == [name |-> "unsubscribe", topic |-> topic_in, conn |-> is_connected,
                 pre |-> RegView(heap, subscription_list), dtors |-> rem.dtors]
    IN  /\ CanCall
        /\ heap' = Observable(pc, rem.heap)
        /\ subscription_list' = rem.head
        /\ IF UnsubscribeLocalOnly(is_connected)
           THEN Log(MkOp([ret |-> 0] @@ base))
           ELSE \E ok \in BOOLEAN :   \* the answer of esp_mqtt_unsubscribe
                   Log(MkOp([ret |-> UnsubscribeResult(ok),
                             tcalls |-> <<[fn |-> "unsubscribe", topic |-> topic,
                                           ok |-> ok]>>] @@ base))
        /\ UNCHANGED <<prefix, is_connected, on_connected_cb, on_disconnected_cb,
                       publications_list, initialized, pc, nsubs, enqueued>>

\* ---------------------------------------------------------- mqtt_publish
\* mutant: every publication is queued
PublishForwards_never(conn) == FALSE

\* if (is_connected)
PublishForwards(conn) == conn # 0

\* mutant: the transport's bool is returned as the int result
PublishResult_bool(ok) == IF ok = TRUE THEN 1 ELSE 0

\* return esp_mqtt_publish(...) != true
PublishResult(ok) == IF ok # TRUE THEN 1 ELSE 0

mqtt_publish(topic_in, args) ==
    LET topic == mqtt_add_prefix(prefix, topic_in)
        base == [name |-> "publish", topic |-> topic_in, conn |-> is_connected,
                 queued |-> enqueued, pubs |-> publications_list]
    IN  /\ CanCall
        /\ IF PublishForwards(is_connected)
           THEN /\ \E ok \in BOOLEAN :   \* the answer of esp_mqtt_publish
                      Log(MkOp([ret |-> PublishResult(ok),
                                tcalls |-> <<PublishCall(prefix, topic_in,
                                               args.payload, args.len, args.qos,
                                               args.retained, ok)>>] @@ base))
                /\ UNCHANGED <<publications_list, enqueued>>
           ELSE /\ Len(publications_list) < MaxQueue
                /\ publications_list' =
                       mqtt_publication_add(publications_list, topic, args.payload,
                                            args.len, args.qos, args.retained)
                /\ enqueued' =
                       Append(enqueued,
                              Head(mqtt_publication_add(<<>>, topic, args.payload,
                                       args.len, args.qos, args.retained)))
                /\ Log(MkOp([ret |-> 0] @@ base))
        /\ UNCHANGED <<prefix, is_connected, on_connected_cb, on_disconnected_cb,
                       subscription_list, heap, initialized, pc, nsubs>>

\* ------------------------------------------- connect, disconnect, set-up
\* (the application registers its callbacks and initializes the transport
\* between handlers, not from inside a callback)
mqtt_connect(prefix_in) ==
    /\ CanCall
    /\ prefix' = prefix_in
    /\ Log(MkOp([name |-> "connect", conn |-> is_connected, ret |-> 0,
                 tcalls |-> <<[fn |-> "start"]>>]))
    /\ UNCHANGED <<is_connected, on_connected_cb, on_disconnected_cb,
                   subscription_list, heap, publications_list, initialized, pc,
                   nsubs, enqueued>>

mqtt_disconnect ==
    /\ CanCall
    /\ is_connected' = 0
    /\ Log(MkOp([name |-> "disconnect", conn |-> is_connected, ret |-> 0,
                 tcalls |-> <<[fn |-> "stop"]>>]))
    /\ UNCHANGED <<prefix, on_connected_cb, on_disconnected_cb, subscription_list,
                   heap, publications_list, initialized, pc, nsubs, enqueued>>

mqtt_set_on_connected_cb(cb) ==
    /\ pc = "idle"
    /\ on_connected_cb' = cb
    /\ Log(MkOp([name |-> "set_on_connected_cb", conn |-> is_connected]))
    /\ UNCHANGED <<prefix, is_connected, on_disconnected_cb, subscription_list,
                   heap, publications_list, initialized, pc, nsubs, enqueued>>

mqtt_set_on_disconnected_cb(cb) ==
    /\ pc = "idle"
    /\ on_disconnected_cb' = cb
    /\ Log(MkOp([name |-> "set_on_disconnected_cb", conn |-> is_connected]))
    /\ UNCHANGED <<prefix, is_connected, on_connected_cb, subscription_list,
                   heap, publications_list, initialized, pc, nsubs, enqueued>>

mqtt_initialize ==
    /\ pc = "idle"
    /\ initialized' = TRUE
    /\ Log(MkOp([name |-> "initialize", conn |-> is_connected, ret |-> 0,
                 tcalls |-> <<[fn |-> "init"]>>]))
    /\ UNCHANGED <<prefix, is_connected, on_connected_cb, on_disconnected_cb,
                   subscription_list, heap, publications_list, pc, nsubs,
                   enqueued>>

\* ------------------------------------------------------- mqtt_status_cb
\* what freeing a block that is already free can do
DoubleFreeOutcomes == {"crash", "continue"}

\* case ESP_MQTT_STATUS_CONNECTED, up to the call of on_connected_cb
StatusConnected ==
    /\ pc = "idle"
    /\ initialized
    /\ \E answers \in [1..Len(publications_list) -> BOOLEAN] :
       \E ub \in (IF FlushDoubleFree(prefix, publications_list)
                  THEN DoubleFreeOutcomes ELSE {"continue"}) :
          LET op == MkOp([name |-> "status_connected", conn |-> is_connected,
                          tcalls |-> mqtt_publications_publish(prefix,
                                         publications_list, answers),
                          queued |-> enqueued, pubs |-> publications_list])
          IN  /\ is_connected' = 1
              /\ IF ub = "crash"
                 THEN /\ pc' = "crashed"
                      /\ hist' = <<op, MkOp([name |-> "crash"])>>
                      /\ UNCHANGED <<publications_list, enqueued>>
                 ELSE /\ publications_list' = mqtt_publications_free(publications_list)
                      /\ enqueued' = <<>>
                      /\ pc' = IF on_connected_cb # "NULL" THEN "on_connected" ELSE "idle"
                      /\ hist' = <<op>>
    /\ msg' = NoMsg
    /\ calls' = <<>>
    /\ UNCHANGED <<prefix, on_connected_cb, on_disconnected_cb, subscription_list,
                   heap, initialized, nsubs>>

\* on_connected_cb returns
ConnectedCbReturn ==
    /\ pc = "on_connected"
    /\ pc' = "idle"
    /\ hist' = <<MkOp([name |-> "connected_return", conn |-> is_connected])>>
    /\ UNCHANGED <<prefix, is_connected, on_connected_cb, on_disconnected_cb,
                   subscription_list, heap, publications_list, initialized, msg,
                   calls, nsubs, enqueued>>

\* case ESP_MQTT_STATUS_DISCONNECTED, up to the call of on_disconnected_cb
StatusDisconnected ==
    /\ pc = "idle"
    /\ initialized
    /\ LET rem == mqtt_subscriptions_free(heap, subscription_list)
       IN  /\ is_connected' = 0
           /\ heap' = Observable("idle", rem.heap)
           /\ subscription_list' = rem.head
           /\ hist' = <<MkOp([name |-> "status_disconnected", conn |-> is_connected,
                              pre |-> RegView(heap, subscription_list),
                              dtors |-> rem.dtors])>>
    /\ pc' = IF on_disconnected_cb # "NULL" THEN "on_disconnected" ELSE "idle"
    /\ msg' = NoMsg
    /\ calls' = <<>>
    /\ UNCHANGED <<prefix, on_connected_cb, on_disconnected_cb, publications_list,
                   initialized, nsubs, enqueued>>

\* on_disconnected_cb returns
DisconnectedCbReturn ==
    /\ pc = "on_disconnected"
    /\ pc' = "idle"
    /\ hist' = <<MkOp([name |-> "disconnected_return", conn |-> is_connected])>>
    /\ UNCHANGED <<prefix, is_connected, on_connected_cb, on_disconnected_cb,
                   subscription_list, heap, publications_list, initialized, msg,
                   calls, nsubs, enqueued>>

\* ------------------------------------------------------ mqtt_message_cb
\* if (strcmp(cur->topic, topic_in)) continue;
DispatchMatches(stored, topic_in) == Strcmp(stored, topic_in) = 0

\* the values the loop can read as cur->next: the field, or, from a block
\* that was released, anything
NextOf(h, c) == {h[c].next} \cup (IF h[c].live THEN {} ELSE {WILD})

\* the results the loop can read for its match test at block c: the test on
\* the strings, or, when one of them was released, a mismatch as well
MatchReads(h, c, tin, tfreed) ==
    {DispatchMatches(h[c].topic, tin)}
    \cup (IF h[c].live /\ ~tfreed THEN {} ELSE {FALSE})

\* mqtt_remove_prefix(topic_in) and the call of cur->cb for the block at c
Deliver(p, c, tin, tfreed) ==
    IF ~tfreed
    THEN {[kind |-> "call", cur |-> c, topic |-> r.topic, freed |-> r.freed] :
            r \in mqtt_remove_prefix(p, tin)}
    ELSE {[kind |-> "call", cur |-> c, topic |-> t, freed |-> TRUE] :
            t \in {r.topic : r \in mqtt_remove_prefix(p, tin)} \cup Garbage}
         \cup (IF NoPrefix(p) THEN {} ELSE {[kind |-> "crash"]})

\* the loop of mqtt_message_cb from cur = c up to its next callback: it
\* ends ("done"), calls cur->cb ("call"), or follows a wild pointer ("crash")
RECURSIVE Scan(_, _, _, _, _, _)
Scan(h, p, c, tin, tfreed, fuel) ==
    IF c = WILD \/ fuel = 0 THEN {[kind |-> "crash"]}
    ELSE IF c = NULL THEN {[kind |-> "done"]}
    ELSE UNION { IF m
                 THEN Deliver(p, c, tin, tfreed)
                 ELSE UNION {Scan(h, p, n, tin, tfreed, fuel - 1) : n \in NextOf(h, c)} :
                 m \in MatchReads(h, c, tin, tfreed) }

\* the record of one cur->cb(topic, payload, len, cur->ctx): the arguments,
\* and the record (its topic, whether it is still allocated, whether its
\* free_cb was called when it was released) and the prefix at the time of
\* the call
CallOf(h, o, m) ==
    [serial |-> h[o.cur].serial, cb |-> h[o.cur].cb, topic |-> o.topic,
     payload |-> m.payload, len |-> m.len, ctx |-> h[o.cur].ctx,
     live |-> h[o.cur].live, stored |-> h[o.cur].topic, prefix |-> prefix,
     destroyed |-> ~h[o.cur].live /\ DestructorRuns(h[o.cur])]

\* the dispatch goes on to outcome o of the loop
DispatchTo(o, m, cl, hs) ==
    /\ pc' = CASE o.kind = "done" -> "idle"
               [] o.kind = "crash" -> "crashed"
               [] o.kind = "call" -> "on_message"
    /\ msg' = CASE o.kind = "done" -> [m EXCEPT !.done = TRUE, !.cur = NULL]
                [] o.kind = "crash" -> m
                [] o.kind = "call" -> [m EXCEPT !.cur = o.cur, !.freed = o.freed]
    /\ calls' = IF o.kind = "call" THEN Append(cl, CallOf(heap, o, m)) ELSE cl
    /\ heap' = IF o.kind = "done" THEN Observable("idle", heap) ELSE heap
    /\ hist' = CASE o.kind = "done" -> <<[Head(hs) EXCEPT !.nested = 0]>>
                 [] o.kind = "crash" -> Append(hs, MkOp([name |-> "crash"]))
                 [] o.kind = "call" -> hs

\* mqtt_message_cb from its entry up to the first callback
MessageCb(topic_in, payload) ==
    /\ pc = "idle"
    /\ initialized
    /\ LET m == [NoMsg EXCEPT !.topic_in = topic_in, !.payload = payload,
                              !.len = Len(payload), !.cur = subscription_list,
                              !.pre = RegView(heap, subscription_list)]
           op == MkOp([name |-> "message", topic |-> topic_in, conn |-> is_connected,
                       pre |-> RegView(heap, subscription_list)])
       IN  \E o \in Scan(heap, prefix, subscription_list, topic_in, FALSE, MaxSubs + 1) :
              DispatchTo(o, m, <<>>, <<op>>)
    /\ UNCHANGED <<prefix, is_connected, on_connected_cb, on_disconnected_cb,
                   subscription_list, publications_list, initialized, nsubs,
                   enqueued>>

\* cur->cb returns: cur = cur->next and the loop goes on
MessageCbReturn ==
    /\ pc = "on_message"
    /\ \E n \in NextOf(heap, msg.cur) :
       \E o \in Scan(heap, prefix, n, msg.topic_in, msg.freed, MaxSubs + 1) :
          DispatchTo(o, [msg EXCEPT !.stale = @ \/ ~heap[msg.cur].live],
                     calls, hist)
    /\ UNCHANGED <<prefix, is_connected, on_connected_cb, on_disconnected_cb,
                   subscription_list, publications_list, initialized, nsubs,
                   enqueued>>

\* ------------------------------------------------------- specification
Next ==
    \/ \E q \in QosInputs, args \in SubArgs : mqtt_subscribe(args.topic, q, args)
    \/ \E t \in Topics : mqtt_unsubscribe(t)
    \/ \E t \in PubTopics, args \in PubArgs : mqtt_publish(t, args)
    \/ \E p \in PrefixInputs : mqtt_connect(p)
    \/ mqtt_disconnect
    \/ \E cb \in CbInputs : mqtt_set_on_connected_cb(cb)
    \/ \E cb \in CbInputs : mqtt_set_on_disconnected_cb(cb)
    \/ mqtt_initialize
    \/ StatusConnected
    \/ ConnectedCbReturn
    \/ StatusDisconnected
    \/ DisconnectedCbReturn
    \/ \E t \in WireTopics, pl \in MsgPayloads : MessageCb(t, pl)
    \/ MessageCbReturn

Spec == Init /\ [][Next]_vars

\* ------------------------------------------- the namespacer on its own
\* mqtt_add_prefix and mqtt_remove_prefix applied to a topic under a prefix,
\* both drawn from the strings over NsChars of length up to NsMaxLen; the
\* topic is held in msg.topic_in and the calls are recorded in calls
NsChars == {"h", "/", "l"}

NsStrings == UNION {[1..n -> NsChars] : n \in 0..NsMaxLen}

NsPrefixes == {NoStr} \cup NsStrings

NsInit ==
    /\ prefix \in NsPrefixes
    /\ \E t \in NsStrings : msg = [NoMsg EXCEPT !.topic_in = t]
    /\ pc = "ns_start"
    /\ is_connected = 0
    /\ on_connected_cb = "NULL"
    /\ on_disconnected_cb = "NULL"
    /\ subscription_list = NULL
    /\ heap = [a \in Addr |-> FreeBlock]
    /\ publications_list = <<>>
    /\ initialized = FALSE
    /\ calls = <<>>
    /\ hist = <<>>
    /\ nsubs = 0
    /\ enqueued = <<>>

NsFrame ==
    UNCHANGED <<prefix, is_connected, on_connected_cb, on_disconnected_cb,
                subscription_list, heap, publications_list, initialized, msg,
                hist, nsubs, enqueued>>

\* topic = mqtt_add_prefix(topic_in)
NsAddPrefix ==
    /\ pc = "ns_start"
    /\ calls' = <<[fn |-> "mqtt_add_prefix", arg |-> msg.topic_in,
                   result |-> mqtt_add_prefix(prefix, msg.topic_in),
                   freed |-> ~NoPrefix(prefix)]>>
    /\ pc' = "ns_added"
    /\ NsFrame

\* mqtt_remove_prefix applied to the topic, or to what mqtt_add_prefix returned
NsRemovePrefix ==
    /\ pc \in {"ns_start", "ns_added"}
    /\ LET arg == IF pc = "ns_start" THEN msg.topic_in ELSE calls[1].result
       IN  \E r \in mqtt_remove_prefix(prefix, arg) :
              calls' = Append(calls, [fn |-> "mqtt_remove_prefix", arg |-> arg,
                                      result |-> r.topic, freed |-> r.freed])
    /\ pc' = "ns_done"
    /\ NsFrame

NsNext == NsAddPrefix \/ NsRemovePrefix

SpecNamespace == NsInit /\ [][NsNext]_vars

\* ================================================================ claims
\* the operation or event the history recorded last
Last == hist[Len(hist)]

LastIs(name) == hist # <<>> /\ Last.name = name

\* what identifies a publication apart from its topic
PubContent(e) ==
    [payload |-> e.payload, len |-> e.len, qos |-> e.qos, retained |-> e.retained]

\* the serial numbers of a sequence of records or calls
Serials(s) == [i \in 1..Len(s) |-> s[i].serial]

\* a sequence of transport calls was rejected throughout
AllRejected(tcalls) == \A i \in 1..Len(tcalls) : tcalls[i].ok = FALSE

\* C1: the flush of a connected event hands the queued publications to the
\* transport in the order in which mqtt_publish enqueued them.
C1_FlushInEnqueueOrder ==
    (hist # <<>> /\ hist[1].name = "status_connected")
        => [i \in 1..Len(hist[1].tcalls) |-> PubContent(hist[1].tcalls[i])]
           = [i \in 1..Len(hist[1].queued) |-> PubContent(hist[1].queued[i])]

\* C2: between handlers, a false connectivity flag implies an empty
\* subscription list.
C2_DisconnectedRegistryEmpty ==
    (pc = "idle" /\ is_connected = 0) => subscription_list = NULL

\* C3: whenever the connectivity flag is set the publication list is empty,
\* between handlers and while a callback runs; in particular it is empty when
\* the connected event has been handled, before on_connected_cb acts.
C3_ConnectedQueueEmpty ==
    /\ (pc # "crashed" /\ is_connected # 0) => publications_list = <<>>
    /\ (pc # "crashed" /\ hist # <<>> /\ Last.name = "status_connected")
          => (is_connected = 1 /\ publications_list = <<>>)

\* C3 witness: a connected event that flushed two queued publications has
\* been handled.
C3_Witness ==
    /\ pc = "idle"
    /\ LastIs("status_connected")
    /\ Len(Last.tcalls) = 2
    /\ is_connected = 1
    /\ publications_list = <<>>

\* C4: with a non-empty prefix P, a callback invoked for a message on P+S
\* receives the topic S.
C4_CallbackGetsStrippedTopic ==
    \A i \in 1..Len(calls) :
        (~NoPrefix(calls[i].prefix)
         /\ Take(msg.topic_in, Len(calls[i].prefix)) = calls[i].prefix)
            => calls[i].topic
               = SubSeq(msg.topic_in, Len(calls[i].prefix) + 1, Len(msg.topic_in))

\* the dispatch of a message is over: the loop ended, or the handler died
DispatchOver ==
    /\ hist # <<>>
    /\ hist[1].name = "message"
    /\ (pc = "idle" /\ msg.done) \/ pc = "crashed"

\* the records of the registry, as it was when the message arrived, whose
\* topic equals topic_in
MatchingAtArrival == SelectSeq(msg.pre, LAMBDA r : r.topic = msg.topic_in)

\* the callbacks invoked for records that were registered when the message
\* arrived
CallsOfArrival ==
    SelectSeq(calls, LAMBDA c : \E i \in 1..Len(msg.pre) : msg.pre[i].serial = c.serial)

\* C5: the dispatch of a message on T invokes the callback of each record
\* whose topic is T once, in list order, and of no record whose topic is not T.
C5_DispatchInvokesMatching ==
    DispatchOver
        => /\ Serials(CallsOfArrival) = Serials(MatchingAtArrival)
           /\ \A i \in 1..Len(calls) : calls[i].stored = msg.topic_in

\* C6: mqtt_subscribe with the flag false returns -1, calls the transport
\* not at all and leaves the registry as it was.
C6_SubscribeDisconnectedFails ==
    (LastIs("subscribe") /\ Last.conn = 0)
        => /\ Last.ret = -1
           /\ Last.tcalls = <<>>
           /\ RegView(heap, subscription_list) = Last.pre

\* C6 witness: a subscribe was made with the flag false.
C6_Witness == LastIs("subscribe") /\ Last.conn = 0 /\ Last.ret = -1

\* C7: a connected mqtt_subscribe during which the transport accepted an
\* attempt returns 0 and appends one record; it returns -1 only if every
\* attempt was rejected.
C7_SubscribeAcceptedSucceeds ==
    (LastIs("subscribe") /\ Last.conn # 0)
        => /\ (\E i \in 1..Len(Last.tcalls) : Last.tcalls[i].ok)
                => /\ Last.ret = 0
                   /\ Len(RegView(heap, subscription_list)) = Len(Last.pre) + 1
                   /\ SubSeq(RegView(heap, subscription_list), 1, Len(Last.pre))
                      = Last.pre
           /\ Last.ret = -1 => AllRejected(Last.tcalls)

\* C8: one mqtt_subscribe calls esp_mqtt_subscribe at most three times.
C8_AtMostThreeAttempts ==
    LastIs("subscribe") => Len(Last.tcalls) <= 3

\* C9: a connected mqtt_subscribe whose every attempt the transport rejects
\* returns -1 and leaves the registry as it was.
C9_AllRejectedFails ==
    (LastIs("subscribe") /\ Last.conn # 0 /\ AllRejected(Last.tcalls))
        => /\ Last.ret = -1
           /\ RegView(heap, subscription_list) = Last.pre

\* C9 witness: with a record registered, a connected subscribe had every
\* attempt rejected.
C9_Witness ==
    /\ LastIs("subscribe")
    /\ Last.conn # 0
    /\ Len(Last.tcalls) > 0
    /\ AllRejected(Last.tcalls)
    /\ Last.ret = -1
    /\ Len(Last.pre) > 0

\* C10: mqtt_unsubscribe with the flag false returns 0 without a transport
\* call; with the flag set it calls esp_mqtt_unsubscribe once and returns 0
\* exactly when the transport reported success.
C10_UnsubscribeResult ==
    LastIs("unsubscribe")
        => /\ Last.conn = 0 => (Last.ret = 0 /\ Last.tcalls = <<>>)
           /\ Last.conn # 0
                => /\ Len(Last.tcalls) = 1
                   /\ Last.tcalls[1].fn = "unsubscribe"
                   /\ (Last.ret = 0) <=> Last.tcalls[1].ok

\* string s starts with string t
StartsWith(s, t) == Len(t) <= Len(s) /\ SubSeq(s, 1, Len(t)) = t

\* sequence s without its i-th element
Without(s, i) == SubSeq(s, 1, i - 1) \o SubSeq(s, i + 1, Len(s))

\* positions of the records of registry view r whose topic starts with t
StartingWith(r, t) == {i \in 1..Len(r) : StartsWith(r[i].topic, t)}

\* C11: mqtt_unsubscribe, connected or not and whatever the transport
\* answers, removes the first record whose topic starts with the namespaced
\* topic and leaves the other records and their order as they were; with no
\* such record the registry is unchanged.
C11_UnsubscribeRemovesFirstMatch ==
    LastIs("unsubscribe")
        => LET t == mqtt_add_prefix(prefix, Last.topic)
               m == StartingWith(Last.pre, t)
               now == RegView(heap, subscription_list)
           IN  IF m = {} THEN now = Last.pre
               ELSE \E i \in m : /\ \A j \in m : i <= j
                                 /\ now = Without(Last.pre, i)

\* C11 witness: of two records that both start with the topic, the first of
\* which is not equal to it, an unsubscribe removed the first.
C11_Witness ==
    /\ LastIs("unsubscribe")
    /\ Len(Last.pre) = 2
    /\ StartingWith(Last.pre, mqtt_add_prefix(prefix, Last.topic)) = {1, 2}
    /\ Last.pre[1].topic # mqtt_add_prefix(prefix, Last.topic)
    /\ RegView(heap, subscription_list) = <<Last.pre[2]>>

\* C12: a connected mqtt_publish calls esp_mqtt_publish once, returns 0
\* exactly when the transport accepted, and leaves the publication list as it
\* was; a disconnected one calls the transport not at all, adds one entry to
\* the list and returns 0.
C12_PublishForwardsOrQueues ==
    LastIs("publish")
        => /\ Last.conn # 0
                => /\ Len(Last.tcalls) = 1
                   /\ Last.tcalls[1].fn = "publish"
                   /\ (Last.ret = 0) <=> (Last.tcalls[1].ok = TRUE)
                   /\ publications_list = Last.pubs
           /\ Last.conn = 0
                => /\ Last.tcalls = <<>>
                   /\ Last.ret = 0
                   /\ Len(publications_list) = Len(Last.pubs) + 1
                   /\ \E i \in 1..Len(publications_list) :
                         Without(publications_list, i) = Last.pubs

\* C12 witness: a connected publish that the transport rejected returned
\* non-zero.
C12_Witness ==
    /\ LastIs("publish")
    /\ Last.conn # 0
    /\ Len(Last.tcalls) = 1
    /\ Last.tcalls[1].ok = FALSE
    /\ Last.ret # 0

\* sequences s and t hold the same elements the same number of times
SameBag(s, t) ==
    /\ Len(s) = Len(t)
    /\ \A i \in 1..Len(s) :
          Cardinality({j \in 1..Len(s) : s[j] = s[i]})
          = Cardinality({j \in 1..Len(t) : t[j] = s[i]})

\* the contents of a sequence of publications or publish calls
PubContents(s) == [i \in 1..Len(s) |-> PubContent(s[i])]

\* the handler in progress, or last completed, is that of a connected event
FlushEvent == hist # <<>> /\ hist[1].name = "status_connected"

\* C13: a connected event hands each entry of the publication list to the
\* transport once, whatever the transport answers, and leaves the list
\* empty; the entries it hands over are those enqueued since the previous
\* flush, so none is sent by two connected events.
C13_FlushSendsEachOnce ==
    FlushEvent
        => /\ SameBag(PubContents(hist[1].tcalls), PubContents(hist[1].pubs))
           /\ SameBag(hist[1].pubs, hist[1].queued)
           /\ (Len(hist) = 1 /\ pc # "crashed") => publications_list = <<>>

\* C13 witness: a connected event flushed two entries, the transport
\* rejected the first call and accepted the second, and the list is empty.
C13_Witness ==
    /\ FlushEvent
    /\ Len(hist) = 1
    /\ pc # "crashed"
    /\ Len(hist[1].pubs) = 2
    /\ Len(hist[1].tcalls) = 2
    /\ hist[1].tcalls[1].ok = FALSE
    /\ hist[1].tcalls[2].ok = TRUE
    /\ publications_list = <<>>

\* the arguments of a sequence of esp_mqtt_publish calls, as entries of the
\* publication list
AsEntries(tcalls) ==
    [i \in 1..Len(tcalls) |->
        [topic |-> tcalls[i].topic, payload |-> tcalls[i].payload,
         len |-> tcalls[i].len, qos |-> tcalls[i].qos,
         retained |-> tcalls[i].retained]]

\* C14: the flush of a connected event calls the transport with the
\* arguments stored in the publication list: for each entry its topic, as it
\* was namespaced when it was enqueued, and its payload, length, qos and
\* retained flag.
C14_FlushSendsStoredArguments ==
    FlushEvent => SameBag(AsEntries(hist[1].tcalls), hist[1].pubs)

\* C15: every topic stored in a subscription record or in an entry of the
\* publication list starts with the prefix now in force (any topic does
\* when there is none).
C15_StoredTopicsCarryPrefix ==
    pc # "crashed"
        => \/ NoPrefix(prefix)
           \/ /\ \A i \in 1..Len(RegView(heap, subscription_list)) :
                    StartsWith(RegView(heap, subscription_list)[i].topic, prefix)
              /\ \A i \in 1..Len(publications_list) :
                    StartsWith(publications_list[i].topic, prefix)

\* the free_cb(ctx) calls due for the records of registry view r, in order
DestructorsDue(r) ==
    LET due == SelectSeq(r, DestructorRuns)
    IN  [i \in 1..Len(due) |->
            [serial |-> due[i].serial, free_cb |-> due[i].free_cb,
             ctx |-> due[i].ctx]]

\* the records of registry view r that are not in registry view now
Gone(r, now) ==
    SelectSeq(r, LAMBDA x : \A i \in 1..Len(now) : now[i].serial # x.serial)

\* C16: an operation calls free_cb(ctx) once for each record it removes from
\* the registry whose ctx and free_cb are both non-null, and for no other;
\* only mqtt_unsubscribe and the disconnected event call any; a record whose
\* free_cb was called is in the registry no more, and no subscription
\* callback is invoked for such a record.
C16_DestructorOncePerRecord ==
    /\ (hist # <<>> /\ Last.name \in {"unsubscribe", "status_disconnected"})
          => Last.dtors
             = DestructorsDue(Gone(Last.pre, RegView(heap, subscription_list)))
    /\ (hist # <<>> /\ Last.name \notin {"unsubscribe", "status_disconnected"})
          => Last.dtors = <<>>
    /\ \A i, j \in 1..Len(RegView(heap, subscription_list)) :
          RegView(heap, subscription_list)[i].serial
            = RegView(heap, subscription_list)[j].serial => i = j
    /\ \A i \in 1..Len(calls) : ~calls[i].destroyed

\* C17: the disconnected event clears the flag and empties the registry,
\* calling free_cb(ctx) for every record that has both, before it calls
\* on_disconnected_cb; the registry and the flag stay so while the callback
\* runs, whatever operations it calls, and when it has returned.
C17_DisconnectedClearsBeforeCallback ==
    /\ LastIs("status_disconnected")
          => /\ is_connected = 0
             /\ subscription_list = NULL
             /\ Last.dtors = DestructorsDue(Last.pre)
    /\ pc = "on_disconnected"
          => /\ hist[1].name = "status_disconnected"
             /\ is_connected = 0
             /\ subscription_list = NULL
    /\ LastIs("disconnected_return")
          => (is_connected = 0 /\ subscription_list = NULL)

\* C17 witness: the event removed a record and called its free_cb, and
\* on_disconnected_cb has tried to subscribe since.
C17_Witness ==
    /\ pc = "on_disconnected"
    /\ hist[1].pre # <<>>
    /\ hist[1].dtors # <<>>
    /\ Last.name = "subscribe"
    /\ Last.ret = -1
    /\ subscription_list = NULL

\* on_connected_cb is running and the last thing it did was to call
\* mqtt_publish or mqtt_subscribe
CallbackPublishedOrSubscribed ==
    pc = "on_connected" /\ Len(hist) = 2 /\ Last.name \in {"publish", "subscribe"}

\* what C18 says of such a call: it found the flag set, went to the
\* transport, and was not put on the publication list, which is empty
ForwardedNotQueued ==
    /\ Last.conn # 0
    /\ Last.tcalls # <<>>
    /\ Last.name = "publish" => (Last.queued = <<>> /\ Last.pubs = <<>>)
    /\ publications_list = <<>>

\* on_connected_cb starts with the flag set, the list flushed and empty
FlushedBeforeCallback ==
    (pc = "on_connected" /\ Len(hist) = 1)
        => /\ hist[1].name = "status_connected"
           /\ is_connected = 1
           /\ Len(hist[1].tcalls) = Len(hist[1].pubs)
           /\ publications_list = <<>>

\* C18 as stated: the connected event sets the flag and flushes and empties
\* the publication list before it calls on_connected_cb, and every
\* mqtt_publish or mqtt_subscribe the callback makes is forwarded and not
\* queued.
C18_CallbackAlwaysForwards ==
    /\ FlushedBeforeCallback
    /\ CallbackPublishedOrSubscribed => ForwardedNotQueued

\* C18 amended: the same, for every mqtt_publish or mqtt_subscribe that
\* on_connected_cb makes while the flag is still set, that is, unless the
\* callback has called mqtt_disconnect before; the first call the callback
\* makes always finds the flag set.
C18_CallbackForwardsWhileConnected ==
    /\ FlushedBeforeCallback
    /\ (CallbackPublishedOrSubscribed /\ hist[1].nested = 1) => Last.conn # 0
    /\ (CallbackPublishedOrSubscribed /\ Last.conn # 0) => ForwardedNotQueued
    /\ (pc = "on_connected" /\ Len(hist) = 2 /\ is_connected = 0)
          => (hist[1].nested > 1 \/ Last.name = "disconnect")

\* C18 witness: after a flush of a queued publication, on_connected_cb
\* published, and the transport was called for it.
C18_Witness ==
    /\ CallbackPublishedOrSubscribed
    /\ Last.name = "publish"
    /\ hist[1].pubs # <<>>
    /\ Last.conn # 0
    /\ Len(Last.tcalls) = 1
    /\ publications_list = <<>>

\* C19: under a non-empty prefix mqtt_remove_prefix gives back the topic
\* mqtt_add_prefix was applied to; under an empty or absent prefix each of
\* the two returns its argument.
C19_NamespaceRoundTrip ==
    /\ (pc = "ns_done" /\ Len(calls) = 2 /\ ~NoPrefix(prefix))
          => calls[2].result = calls[1].arg
    /\ NoPrefix(prefix)
          => \A i \in 1..Len(calls) : calls[i].result = calls[i].arg

\* the records that were registered when the message arrived, match its
\* topic and are registered still
RemainingMatching ==
    SelectSeq(MatchingAtArrival,
              LAMBDA x : \E i \in 1..Len(RegView(heap, subscription_list)) :
                            RegView(heap, subscription_list)[i].serial = x.serial)

\* C20: whatever a subscription callback does, the dispatch loop advances
\* from a record that is still allocated, and when the dispatch is over each
\* matching record that is still registered has had its callback invoked
\* once.
C20_DispatchReadsLiveRecords ==
    /\ msg.stale = FALSE
    /\ (hist # <<>> /\ hist[1].name = "message" /\ pc = "idle" /\ msg.done)
          => \A i \in 1..Len(RemainingMatching) :
                Cardinality({j \in 1..Len(calls) :
                               calls[j].serial = RemainingMatching[i].serial}) = 1

====
